---- MODULE Spec2Model ----
(***************************************************************************)
(* recur 0.1.0: retry a command with exponential backoff and jitter.       *)
(* A model of src/recur.py: the argument conversions of main() (delay,     *)
(* jitter), the retry loop of retry_command() and the exception handling   *)
(* of main() that turns the loop's outcome into the process exit status.   *)
(*                                                                         *)
(* Floats are modelled as v * 2^e with integer v, extended with NaN         *)
(* (float("nan") passes through the source's comparisons); e is 0 for      *)
(* every value but the huge ones; strings are sequences of one-            *)
(* character strings so that float(), str.count and str.split are          *)
(* computed, not assumed.                                                  *)
(***************************************************************************)
EXTENDS Integers, Sequences, FiniteSets, TLC

\* ---------------------------------------------------------------- bounds
\* largest finite value of -t/--tries that is explored
MaxTries == 3
\* cap on the number of child runs when tries is negative (itertools.count())
MaxAttempts == 3

\* ------------------------------------------------------------- constants
MAX_DELAY == 366 * 24 * 60 * 60

\* ---------------------------------------------------------------- floats
\* A float is NaN or the number v * 2^e; e = 0 for the integers the inputs
\* denote, e > 0 only for huge values (beyond 2^53 times any e = 0 value).
F(n) == [nan |-> FALSE, v |-> n, e |-> 0]
NaN == [nan |-> TRUE, v |-> 0, e |-> 0]
Scaled(n, x) == [nan |-> FALSE, v |-> n, e |-> IF n = 0 THEN 0 ELSE x]

RECURSIVE IntPow(_, _)
IntPow(b, n) == IF n = 0 THEN 1 ELSE b * IntPow(b, n - 1)

Abs(n) == IF n < 0 THEN 0 - n ELSE n

\* p * 2^pe < q * 2^qe for integers p, q > 0
MagLt(p, pe, q, qe) ==
    IF pe >= qe
    THEN (pe - qe) <= 30 /\ p <= (q - 1) \div IntPow(2, pe - qe)
    ELSE (qe - pe) > 30 \/ (p \div IntPow(2, qe - pe)) < q

\* a < b on floats: every comparison with NaN is false
FLt(a, b) ==
    /\ ~a.nan
    /\ ~b.nan
    /\ IF a.v < 0 /\ b.v >= 0 THEN TRUE
       ELSE IF a.v >= 0 /\ b.v <= 0 THEN FALSE
       ELSE IF a.v = 0 THEN TRUE
       ELSE IF a.v > 0 THEN MagLt(a.v, a.e, b.v, b.e)
       ELSE MagLt(Abs(b.v), b.e, Abs(a.v), a.e)

\* a + b: exact on the e = 0 values; a huge operand absorbs the other one
FAdd(a, b) ==
    IF a.nan \/ b.nan THEN NaN
    ELSE IF a.e = 0 /\ b.e = 0 THEN F(a.v + b.v)
    ELSE IF a.e >= b.e THEN a ELSE b

FMul(a, b) == IF a.nan \/ b.nan THEN NaN ELSE Scaled(a.v * b.v, a.e + b.e)

\* sys.float_info.max_exp: finite floats are below 2^1024
FLOAT_MAX_EXP == 1024

\* number of binary digits of a natural number
RECURSIVE BitLen(_)
BitLen(n) == IF n = 0 THEN 0 ELSE 1 + BitLen(n \div 2)

\* b ** n raises OverflowError when the magnitude of the result reaches 2^1024
PowOverflows(b, n) ==
    /\ ~b.nan
    /\ n > 0
    /\ b.v # 0
    /\ b.e * n + BitLen(Abs(IntPow(b.v, n))) - 1 >= FLOAT_MAX_EXP

\* b ** n for an int n >= 0 (x ** 0 is 1.0 for every x, NaN included)
FPow(b, n) ==
    IF n = 0 THEN F(1)
    ELSE IF b.nan THEN NaN
    ELSE Scaled(IntPow(b.v, n), b.e * n)

\* builtin min(a, b): the first argument unless the second is smaller
PyMin(a, b) == IF FLt(b, a) THEN b ELSE a

\* --------------------------------------------------------------- strings
Digits == <<"0", "1", "2", "3", "4", "5", "6", "7", "8", "9">>
IsDigit(c) == \E d \in 1..10 : Digits[d] = c
DigitVal(c) == (CHOOSE d \in 1..10 : Digits[d] = c) - 1

\* decimal representation of a natural number
RECURSIVE Repr(_)
Repr(n) == IF n < 10 THEN <<Digits[n + 1]>> ELSE Repr(n \div 10) \o <<Digits[(n % 10) + 1]>>

RECURSIVE ParseNat(_)
ParseNat(s) ==
    IF s = <<>> THEN 0
    ELSE 10 * ParseNat(SubSeq(s, 1, Len(s) - 1)) + DigitVal(s[Len(s)])

AllDigits(s) == s # <<>> /\ \A k \in 1..Len(s) : IsDigit(s[k])

Ok(x) == [ok |-> TRUE, val |-> x]
ValueError == [ok |-> FALSE, val |-> F(0)]

\* float(arg) on the decimal integers, their negations and "nan";
\* anything else (the empty string, letters) raises ValueError
PyFloat(s) ==
    IF s = <<"n", "a", "n">> THEN Ok(NaN)
    ELSE IF AllDigits(s) THEN Ok(F(ParseNat(s)))
    ELSE IF Len(s) >= 2 /\ s[1] = "-" /\ AllDigits(Tail(s)) THEN Ok(F(0 - ParseNat(Tail(s))))
    ELSE ValueError

\* arg.count(",")
RECURSIVE Count(_, _)
Count(s, c) ==
    IF s = <<>> THEN 0
    ELSE (IF Head(s) = c THEN 1 ELSE 0) + Count(Tail(s), c)

\* index of the first occurrence of c in s (s contains c)
FirstIndex(s, c) == CHOOSE k \in 1..Len(s) : s[k] = c /\ \A j \in 1..(k - 1) : s[j] # c

\* arg.split(",", 1) for a string that contains a comma
Split1(s, c) ==
    LET k == FirstIndex(s, c)
    IN  <<SubSeq(s, 1, k - 1), SubSeq(s, k + 1, Len(s))>>

\* ------------------------------------------------- argument conversions
\* main.delay: the range test of the -d, -m and jitter values
OutOfRange(value) == FLt(value, F(0)) \/ FLt(F(MAX_DELAY), value)

delay(arg) ==
    LET r == PyFloat(arg)
    IN  IF ~r.ok THEN ValueError
        ELSE IF OutOfRange(r.val) THEN ValueError
        ELSE Ok(r.val)

\* jitter taking a single number as the minimum (head, tail = arg, "0")
jitterSingleAsMin(arg) ==
    LET commas == Count(arg, ",")
        parts == IF commas = 0 THEN <<arg, <<"0">>>>
                 ELSE IF commas = 1 THEN Split1(arg, ",")
                 ELSE <<<<>>, <<>>>>
        head == delay(parts[1])
        tail == delay(parts[2])
    IN  [ok |-> commas <= 1 /\ head.ok /\ tail.ok, lo |-> head.val, hi |-> tail.val]

\* main.jitter: "max" or "min,max"; ok is false when ValueError is raised
jitter(arg) ==
    LET commas == Count(arg, ",")
        parts == IF commas = 0 THEN <<<<"0">>, arg>>
                 ELSE IF commas = 1 THEN Split1(arg, ",")
                 ELSE <<<<>>, <<>>>>
        head == delay(parts[1])
        tail == delay(parts[2])
    IN  [ok |-> commas <= 1 /\ head.ok /\ tail.ok, lo |-> head.val, hi |-> tail.val]

\* defaults of add_argument
DefaultDelay == F(0)
DefaultMaxDelay == F(24 * 60 * 60)
DefaultJitter == <<"0", ",", "0">>

\* ---------------------------------------------------------------- inputs
Minus(s) == <<"-">> \o s
Comma(a, b) == a \o <<",">> \o b

\* an option is <<>> when absent from the command line, else <<value>>
DelayArgs ==
    {<<>>, <<Repr(1)>>, <<Minus(Repr(1))>>, <<Repr(MAX_DELAY)>>,
     <<Repr(MAX_DELAY + 1)>>, <<<<"n", "a", "n">>>>}
MaxDelayArgs ==
    {<<>>, <<Repr(2)>>, <<Repr(MAX_DELAY)>>, <<Repr(MAX_DELAY + 1)>>,
     <<<<"n", "a", "n">>>>}
JitterArgs ==
    {<<>>, <<Repr(5)>>, <<Comma(Repr(2), Repr(5))>>,
     <<Comma(Repr(1), Comma(Repr(2), Repr(3)))>>,
     <<Comma(Repr(5), Repr(2))>>, <<Comma(Minus(Repr(1)), Repr(2))>>,
     <<Comma(Repr(0), Repr(MAX_DELAY + 1))>>, <<<<"n", "a", "n">>>>}
\* 2^600, a float that -b accepts (4.149515568880993e+180)
HugeBackoff == Scaled(1, 600)
BackoffArgs == {F(-2), F(0), F(1), F(2), HugeBackoff}
TriesArgs == -1..MaxTries

\* returncode of a finished child: an exit status, or -N when killed by signal N
ReturnCodes == {0, 1, 7, -9}

\* ----------------------------------------------------------------- state
VARIABLES
    pc,            \* position: "parse", "loop", "run", "sleep", "done"
    argv,          \* the command line: option values as given
    cfg,           \* keyword arguments of retry_command (after parse_args)
    i,             \* loop variable of retry_command
    attempts,      \* number of sp.run calls made
    codes,         \* returncodes of the child runs that finished, in order
    sleeps,        \* number of time.sleep calls that started sleeping
    fixed_delay,   \* local of retry_command, last value computed
    random_delay,  \* local of retry_command, last value computed
    outcome,       \* how the latest blocking call ended
    result         \* how the process ended

vars == <<pc, argv, cfg, i, attempts, codes, sleeps, fixed_delay, random_delay,
          outcome, result>>

NoConfig ==
    [backoff |-> F(1), min_fixed_delay |-> F(0), max_fixed_delay |-> F(0),
     min_random_delay |-> F(0), max_random_delay |-> F(0), tries |-> 0]

NoResult == [kind |-> "none", exc |-> "", code |-> 0]

Init ==
    /\ pc = "parse"
    /\ argv \in [d : DelayArgs, m : MaxDelayArgs, j : JitterArgs,
                 b : BackoffArgs, t : TriesArgs]
    /\ cfg = NoConfig
    /\ i = 0
    /\ attempts = 0
    /\ codes = <<>>
    /\ sleeps = 0
    /\ fixed_delay = F(0)
    /\ random_delay = F(0)
    /\ outcome = "none"
    /\ result = NoResult

\* ------------------------------------------------------------------ main
\* sys.exit(n) / the status the OS reports for a Python int
ExitStatus(rc) == rc % 256

\* main without its except KeyboardInterrupt clause
MainOutcomeNoInterruptClause(exc, rc) ==
    IF exc = "CalledProcessError"
    THEN [kind |-> "sys_exit", exc |-> exc, code |-> ExitStatus(rc)]
    ELSE [kind |-> "traceback", exc |-> exc, code |-> 1]

\* the try/except around retry_command in main, and what escapes it
MainOutcome(exc, rc) ==
    IF exc = "CalledProcessError"
    THEN [kind |-> "sys_exit", exc |-> exc, code |-> ExitStatus(rc)]
    ELSE IF exc = "KeyboardInterrupt"
    THEN [kind |-> "return", exc |-> exc, code |-> 0]
    ELSE [kind |-> "traceback", exc |-> exc, code |-> 1]

\* retry_command returned normally and main falls off its end
Returned == [kind |-> "return", exc |-> "", code |-> 0]

\* parser.error(): usage message, exit status 2
UsageError == [kind |-> "usage", exc |-> "SystemExit", code |-> 2]

\* parser.parse_args(): the type= conversions, then the call of retry_command
ParseArgs ==
    /\ pc = "parse"
    /\ LET d == IF argv.d = <<>> THEN Ok(DefaultDelay) ELSE delay(argv.d[1])
           m == IF argv.m = <<>> THEN Ok(DefaultMaxDelay) ELSE delay(argv.m[1])
           j == jitter(IF argv.j = <<>> THEN DefaultJitter ELSE argv.j[1])
       IN  IF d.ok /\ m.ok /\ j.ok
           THEN /\ cfg' = [backoff |-> argv.b,
                           min_fixed_delay |-> d.val,
                           max_fixed_delay |-> m.val,
                           min_random_delay |-> j.lo,
                           max_random_delay |-> j.hi,
                           tries |-> argv.t]
                /\ pc' = "loop"
                /\ UNCHANGED result
           ELSE /\ pc' = "done"
                /\ result' = UsageError
                /\ UNCHANGED cfg
    /\ UNCHANGED <<argv, i, attempts, codes, sleeps, fixed_delay, random_delay, outcome>>

\* --------------------------------------------------------- retry_command
\* the number of child runs explored: beyond any finite budget, and
\* MaxAttempts when the budget is unbounded
AttemptCap(tries) == IF tries >= 0 THEN MaxTries + 1 ELSE MaxAttempts

\* range(tries + 1) in place of range(tries)
IteratorExhaustedOffByOne(idx, tries) == tries >= 0 /\ idx > tries

\* itertools.count() whatever the value of tries
IteratorNeverExhausted(idx, tries) == FALSE

\* range(tries) is exhausted (itertools.count() never is)
IteratorExhausted(idx, tries) == tries >= 0 /\ idx >= tries

\* the for statement: take the next index and call sp.run, or leave the loop
ForNext ==
    /\ pc = "loop"
    /\ IF IteratorExhausted(i, cfg.tries)
       THEN /\ pc' = "done"
            /\ result' = Returned
            /\ UNCHANGED attempts
       ELSE /\ attempts < AttemptCap(cfg.tries)
            /\ pc' = "run"
            /\ attempts' = attempts + 1
            /\ UNCHANGED result
    /\ UNCHANGED <<argv, cfg, i, codes, sleeps, fixed_delay, random_delay, outcome>>

\* the handler widened to every exception of sp.run (except Exception)
CaughtByRetryAnyError(exc) == exc \in {"CalledProcessError", "FileNotFoundError"}

\* except sp.CalledProcessError
CaughtByRetry(exc) == exc = "CalledProcessError"

\* the last-attempt test off by one (i == tries)
IsLastTryOffByOne(idx, tries) == idx = tries

\* if i == tries - 1: raise
IsLastTry(idx, tries) == idx = tries - 1

\* the fixed delay without its ceiling
FixedDelayUncapped(c, idx) == FMul(c.min_fixed_delay, FPow(c.backoff, idx))

\* min(max_fixed_delay, min_fixed_delay * backoff**i)
FixedDelay(c, idx) ==
    PyMin(c.max_fixed_delay, FMul(c.min_fixed_delay, FPow(c.backoff, idx)))

\* random.uniform(a, b) = a + (b - a) * random(): sampled at its ends and middle
Uniform(a, b) ==
    IF a.nan \/ b.nan THEN {NaN}
    ELSE {a, b, F(a.v + ((b.v - a.v) \div 2))}

\* time.sleep(secs) raises ValueError for a negative or NaN duration
SleepRejects(secs) == secs.nan \/ secs.v < 0

\* an exception leaves retry_command and reaches main
Terminate(exc, rc) ==
    /\ pc' = "done"
    /\ result' = MainOutcome(exc, rc)

\* an exception raised by sp.run in iteration i
Raised(exc, rc) ==
    IF CaughtByRetry(exc)
    THEN IF IsLastTry(i, cfg.tries)
         THEN /\ Terminate(exc, rc)
              /\ UNCHANGED <<sleeps, fixed_delay, random_delay>>
         ELSE IF PowOverflows(cfg.backoff, i)
         THEN /\ Terminate("OverflowError", 0)
              /\ UNCHANGED <<sleeps, fixed_delay, random_delay>>
         ELSE \E rd \in Uniform(cfg.min_random_delay, cfg.max_random_delay) :
                /\ fixed_delay' = FixedDelay(cfg, i)
                /\ random_delay' = rd
                /\ IF SleepRejects(FAdd(FixedDelay(cfg, i), rd))
                   THEN /\ Terminate("ValueError", 0)
                        /\ UNCHANGED sleeps
                   ELSE /\ pc' = "sleep"
                        /\ sleeps' = sleeps + 1
                        /\ UNCHANGED result
    ELSE /\ Terminate(exc, rc)
         /\ UNCHANGED <<sleeps, fixed_delay, random_delay>>

\* sp.run(args, check=True): the child finished with returncode rc
ChildExits ==
    /\ pc = "run"
    /\ \E rc \in ReturnCodes :
        /\ codes' = Append(codes, rc)
        /\ outcome' = "exited"
        /\ IF rc = 0
           THEN /\ pc' = "loop"
                /\ UNCHANGED <<sleeps, fixed_delay, random_delay, result>>
           ELSE Raised("CalledProcessError", rc)
        /\ i' = IF rc = 0 THEN i + 1 ELSE i
    /\ UNCHANGED <<argv, cfg, attempts>>

\* sp.run: the command cannot be found or started
LaunchFailure ==
    /\ pc = "run"
    /\ outcome' = "launch_failure"
    /\ Raised("FileNotFoundError", 0)
    /\ UNCHANGED <<argv, cfg, i, attempts, codes>>

\* SIGINT while waiting for the child or while sleeping
Interrupt ==
    /\ pc \in {"run", "sleep"}
    /\ outcome' = "interrupted"
    /\ IF CaughtByRetry("KeyboardInterrupt") /\ pc = "run"
       THEN Raised("KeyboardInterrupt", 0)
       ELSE /\ Terminate("KeyboardInterrupt", 0)
            /\ UNCHANGED <<sleeps, fixed_delay, random_delay>>
    /\ UNCHANGED <<argv, cfg, i, attempts, codes>>

\* time.sleep returns; the loop goes on to the next index
SleepReturns ==
    /\ pc = "sleep"
    /\ pc' = "loop"
    /\ i' = i + 1
    /\ outcome' = "slept"
    /\ UNCHANGED <<argv, cfg, attempts, codes, sleeps, fixed_delay, random_delay, result>>

Next ==
    \/ ParseArgs
    \/ ForNext
    \/ ChildExits
    \/ LaunchFailure
    \/ Interrupt
    \/ SleepReturns

Spec == Init /\ [][Next]_vars

\* ================================================================ claims
Last(s) == s[Len(s)]
AllFailed == \A k \in 1..Len(codes) : codes[k] # 0
SomeSucceeded == \E k \in 1..Len(codes) : codes[k] = 0
Accepted == pc # "parse" /\ result.kind # "usage"
Rejected == result.kind = "usage"
\* no interruption and no launch failure ended the run
Undisturbed == outcome \notin {"interrupted", "launch_failure"}
InRange(x) == ~x.nan /\ ~FLt(x, F(0)) /\ ~FLt(F(MAX_DELAY), x)
\* a finished process takes no further step
DoneIsFinal == pc # "done"

\* C1: once a child run has exited with status 0 no further run of the child
\* is started and no sleep follows it; so a command that always exits 0 is
\* run exactly once.  (Stated as claimed; the loop has no exit on success.)
C1_StopsAfterSuccess ==
    \A k \in 1..Len(codes) :
        codes[k] = 0 => (k = Len(codes) /\ attempts = k /\ pc # "sleep")

\* C2: when the process has ended (not through a launch failure), if any
\* child run exited 0 the exit status is 0, and a non-zero status passed on from the child (sys.exit) occurs
\* only when every run failed and the finite budget was used up.
C2_SuccessGivesExitZero ==
    pc = "done" =>
        /\ (SomeSucceeded /\ Undisturbed) => result.code = 0
        /\ (result.kind = "sys_exit" /\ result.code # 0) =>
               (AllFailed /\ cfg.tries >= 0 /\ Len(codes) = cfg.tries)

\* C3: with tries = N and no interruption or launch failure, a command whose
\* every run exits with the same non-zero status c has been run exactly N
\* times when the process ends, and the process exits with c.  Checked for
\* N >= 1 (for N = 0 nothing is run and the process returns 0).
C3_AlwaysFailingRunsNTimes ==
    \A c \in {r \in ReturnCodes : r > 0} :
        (/\ pc = "done"
         /\ Accepted
         /\ cfg.tries >= 1
         /\ Undisturbed
         /\ \A k \in 1..Len(codes) : codes[k] = c)
        => (Len(codes) = cfg.tries /\ result.code = c)

\* C4: when tries is finite and the run with index tries - 1 ends with a
\* non-zero returncode, the step that observes it ends the process: no sleep
\* starts, no further run starts, and the exit status is that of this last
\* run (the returncode itself when the child exited with a status).
C4_LastFailureIsFinal ==
    [][/\ DoneIsFinal
       /\ (/\ pc = "run"
           /\ cfg.tries >= 0
           /\ attempts = cfg.tries
           /\ Len(codes') = Len(codes) + 1
           /\ Last(codes') # 0)
          => (/\ pc' = "done"
              /\ sleeps' = sleeps
              /\ attempts' = attempts
              /\ result'.kind = "sys_exit"
              /\ result'.code = ExitStatus(Last(codes'))
              /\ (Last(codes') > 0 => result'.code = Last(codes')))]_vars

\* C4 witness: three runs with differing codes, the last one decides
C4_Witness ==
    /\ pc = "done"
    /\ cfg.tries = 3
    /\ codes = <<7, 1, 1>>
    /\ sleeps = 2
    /\ result.kind = "sys_exit"
    /\ result.code = 1

\* C5: the driver sleeps only right after a failed run while more attempts
\* remain (never after a success or the last permitted attempt), and a
\* command that always fails with tries = N >= 1, not interrupted, has
\* caused exactly N - 1 sleeps when the process ends.
C5_SleepsBetweenFailures ==
    /\ pc = "sleep" =>
          (/\ codes # <<>>
           /\ Last(codes) # 0
           /\ Len(codes) = attempts
           /\ (cfg.tries < 0 \/ attempts < cfg.tries))
    /\ (/\ pc = "done"
        /\ Accepted
        /\ cfg.tries >= 1
        /\ Undisturbed
        /\ AllFailed)
       => sleeps = cfg.tries - 1

\* C6: with negative tries a command that always exits non-zero is retried
\* without end: unless interrupted (or failing to launch) the process never
\* ends on its own.
C6_UnboundedNeverEnds ==
    (Accepted /\ cfg.tries < 0 /\ AllFailed /\ Undisturbed) => pc # "done"

\* C7: an interruption during a child run or during the sleep ends the
\* process at once: no further run or sleep starts, no returncode is
\* recorded for it, and main returns normally (status 0, no sys.exit with a
\* failure code, no traceback).
C7_InterruptStopsQuietly ==
    /\ [](outcome = "interrupted" =>
            (/\ pc = "done"
             /\ result = [kind |-> "return", exc |-> "KeyboardInterrupt", code |-> 0]))
    /\ [][/\ DoneIsFinal
          /\ (outcome' = "interrupted" /\ outcome # "interrupted")
             => (/\ attempts' = attempts
                 /\ sleeps' = sleeps
                 /\ codes' = codes
                 /\ fixed_delay' = fixed_delay
                 /\ random_delay' = random_delay)]_vars

\* C7 witness: interrupted during the sleep after the second failed run
C7_Witness ==
    /\ outcome = "interrupted"
    /\ pc = "done"
    /\ attempts = 2
    /\ Len(codes) = 2
    /\ sleeps = 2

\* C8: a launch failure is never retried, whatever the budget: the step
\* that observes it ends the process with no sleep and no further run, as
\* an uncaught FileNotFoundError, which is neither a normal return nor the
\* sys.exit that passes on a child's returncode.
C8_LaunchFailureIsFatal ==
    /\ [](outcome = "launch_failure" =>
            (/\ pc = "done"
             /\ result.kind = "traceback"
             /\ result.exc = "FileNotFoundError"
             /\ result.code # 0))
    /\ [][/\ DoneIsFinal
          /\ (outcome' = "launch_failure" /\ outcome # "launch_failure")
             => (/\ attempts' = attempts
                 /\ sleeps' = sleeps
                 /\ codes' = codes)]_vars

\* C8 witness: unbounded budget, the second run cannot be launched
C8_Witness ==
    /\ outcome = "launch_failure"
    /\ cfg.tries < 0
    /\ attempts = 2
    /\ Len(codes) = 1
    /\ sleeps = 1

\* C9: the four delay inputs are validated to lie in [0, MAX_DELAY] before
\* any run: an accepted command line has all four within the range
\* (MAX_DELAY itself is accepted), and a rejected one has made no run and
\* exits non-zero.
C9_DelaysValidated ==
    /\ Accepted =>
          (/\ InRange(cfg.min_fixed_delay)
           /\ InRange(cfg.max_fixed_delay)
           /\ InRange(cfg.min_random_delay)
           /\ InRange(cfg.max_random_delay))
    /\ Rejected => (attempts = 0 /\ result.code # 0)
    /\ (pc # "parse" /\ argv.d = <<Repr(MAX_DELAY)>> /\ argv.m = <<>> /\ argv.j = <<>>)
          => Accepted

\* C10: for every accepted command line every delay value lies in
\* [0, MAX_DELAY]: the four configured bounds and each fixed_delay and
\* random_delay computed in retry_command, and the duration handed to
\* time.sleep is never negative (no sleep call is refused).
C10_AllDelaysInRange ==
    Accepted =>
        (/\ \A x \in {cfg.min_fixed_delay, cfg.max_fixed_delay,
                      cfg.min_random_delay, cfg.max_random_delay} : InRange(x)
         /\ InRange(fixed_delay)
         /\ InRange(random_delay)
         /\ result.exc # "ValueError")

\* a <= b on floats (false when either is NaN)
FLe(a, b) == ~a.nan /\ ~b.nan /\ ~FLt(b, a)
\* the four configured delays are numbers within [0, MAX_DELAY]
ConfigInRange ==
    \A x \in {cfg.min_fixed_delay, cfg.max_fixed_delay,
              cfg.min_random_delay, cfg.max_random_delay} : InRange(x)
\* a fixed_delay has just been computed by the handler
DelayComputed == pc = "sleep" \/ result.exc = "ValueError"

\* C11 (as claimed): with backoff = 1 the fixed_delay computed before a
\* sleep equals min_fixed_delay, for every attempt index.  Checked on the
\* configurations whose four delays are numbers within [0, MAX_DELAY].
C11_ConstantDelayIsMinFixed ==
    (pc = "sleep" /\ cfg.backoff = F(1) /\ ConfigInRange)
        => fixed_delay = cfg.min_fixed_delay

\* C11 (amended): with backoff = 1 the fixed_delay is the same for every
\* attempt index: it equals min_fixed_delay when min_fixed_delay <=
\* max_fixed_delay, and max_fixed_delay otherwise (the ceiling still applies).
C11_ConstantDelayIsCapped ==
    (Accepted /\ cfg.backoff = F(1)) =>
        LET expected == IF FLe(cfg.min_fixed_delay, cfg.max_fixed_delay)
                        THEN cfg.min_fixed_delay
                        ELSE cfg.max_fixed_delay
        IN  /\ DelayComputed => fixed_delay = expected
            /\ \A k \in 0..MaxAttempts : FixedDelay(cfg, k) = expected

\* C11 witness: -d MAX_DELAY with the default ceiling, sleeping after the
\* second failure with the ceiling as fixed delay
C11_Witness ==
    /\ pc = "sleep"
    /\ i = 1
    /\ cfg.backoff = F(1)
    /\ cfg.min_fixed_delay = F(MAX_DELAY)
    /\ cfg.max_fixed_delay = DefaultMaxDelay
    /\ fixed_delay = DefaultMaxDelay

\* C12: for every accepted command line and every attempt index k for which
\* backoff**k can be computed, fixed_delay(k) <= max_fixed_delay, and when
\* backoff >= 1 fixed_delay(k) <= fixed_delay(k + 1).
C12_FixedDelayCappedAndMonotone ==
    Accepted =>
        \A k \in 0..MaxAttempts :
            ~PowOverflows(cfg.backoff, k + 1) =>
                /\ FLe(FixedDelay(cfg, k), cfg.max_fixed_delay)
                /\ FLe(F(1), cfg.backoff) =>
                       FLe(FixedDelay(cfg, k), FixedDelay(cfg, k + 1))

\* C13: every accepted command line has min_random_delay <= max_random_delay
\* ("min,max" with min > max is rejected).  Checked on the command lines
\* whose jitter bounds are numbers.
C13_JitterBoundsOrdered ==
    (Accepted /\ ~cfg.min_random_delay.nan /\ ~cfg.max_random_delay.nan)
        => ~FLt(cfg.max_random_delay, cfg.min_random_delay)

\* C14: whenever the driver sleeps, the random_delay drawn lies in
\* [min_random_delay, max_random_delay], and equals the single value when
\* the two bounds are equal.  Checked on the command lines whose jitter
\* bounds are numbers.
C14_RandomDelayWithinBounds ==
    (pc = "sleep" /\ ~cfg.min_random_delay.nan /\ ~cfg.max_random_delay.nan)
        => /\ FLe(cfg.min_random_delay, random_delay)
           /\ FLe(random_delay, cfg.max_random_delay)
           /\ cfg.min_random_delay = cfg.max_random_delay
                 => random_delay = cfg.min_random_delay

\* C15: with tries = 0 the child is never run and no sleep occurs (the
\* process returns at once); with tries = 1 the child is run exactly once,
\* with no sleep and no second run, whatever its exit status.
C15_BoundaryBudgets ==
    Accepted =>
        /\ cfg.tries = 0 =>
              (/\ attempts = 0
               /\ sleeps = 0
               /\ codes = <<>>
               /\ pc = "done" => result = Returned)
        /\ cfg.tries = 1 =>
              (/\ attempts <= 1
               /\ sleeps = 0
               /\ pc = "done" => attempts = 1)

\* C15 witness: tries = 1 and the single run succeeded; the process is over
C15_Witness ==
    /\ pc = "done"
    /\ cfg.tries = 1
    /\ codes = <<0>>
    /\ attempts = 1
    /\ result = Returned

\* C16: the jitter option "x" gives the bounds (0, x), "a,b" gives (a, b),
\* and a value with two or more commas is rejected before any run:
\* "5" -> (0, 5), "2,5" -> (2, 5), "5,2" -> (5, 2), "1,2,3" rejected.
C16_JitterParsing ==
    LET bounds == <<cfg.min_random_delay, cfg.max_random_delay>>
        plain == argv.d = <<>> /\ argv.m = <<>>
    IN  pc # "parse" =>
            /\ argv.j = <<<<"5">>>> =>
                  (/\ Accepted => bounds = <<F(0), F(5)>>
                   /\ plain => Accepted)
            /\ argv.j = <<<<"2", ",", "5">>>> =>
                  (/\ Accepted => bounds = <<F(2), F(5)>>
                   /\ plain => Accepted)
            /\ (argv.j = <<<<"5", ",", "2">>>> /\ Accepted) => bounds = <<F(5), F(2)>>
            /\ argv.j = <<<<"1", ",", "2", ",", "3">>>> => (Rejected /\ attempts = 0)
            /\ (argv.j # <<>> /\ Len(SelectSeq(argv.j[1], LAMBDA c : c = ",")) >= 2)
                  => (Rejected /\ attempts = 0)

\* C16 witness: -j 2,5 accepted and in use while sleeping
C16_Witness ==
    /\ pc = "sleep"
    /\ argv.j = <<<<"2", ",", "5">>>>
    /\ cfg.min_random_delay = F(2)
    /\ cfg.max_random_delay = F(5)
    /\ random_delay = F(3)

\* number of child runs so far that ended with a non-zero returncode
FailedRuns == Cardinality({k \in 1..Len(codes) : codes[k] # 0})

\* C17: the exponent of the backoff counts the failed runs before the
\* current one: the sleep after the k-th failure (k = 0 for the first) uses
\* fixed_delay = min(max_fixed_delay, min_fixed_delay * backoff^k).
C17_ExponentCountsFailures ==
    pc = "sleep" => fixed_delay = FixedDelay(cfg, FailedRuns - 1)

\* C18: with negative tries and backoff > 1 the computation of fixed_delay
\* never fails with an arithmetic error, whatever the attempt index: a
\* command that keeps failing does not make the process end with
\* OverflowError.
C18_NoArithmeticError ==
    (Accepted /\ cfg.tries < 0 /\ FLt(F(1), cfg.backoff) /\ AllFailed)
        => result.exc # "OverflowError"

\* C19: with a finite budget the number of child runs never exceeds tries,
\* and runs are sequential: a run starts only from the loop head, one at a
\* time, after every earlier run has exited and, when the previous run
\* failed, after the sleep that followed it has returned.
C19_AtMostTriesSequential ==
    /\ []((Accepted /\ cfg.tries >= 0) => attempts <= cfg.tries)
    /\ [](pc = "run" => Len(codes) = attempts - 1)
    /\ [][attempts' # attempts =>
             (/\ attempts' = attempts + 1
              /\ pc = "loop"
              /\ pc' = "run"
              /\ Len(codes) = attempts
              /\ (codes = <<>> \/ Last(codes) = 0 \/ outcome = "slept"))]_vars

\* C19 witness: the third and last permitted run is under way after two sleeps
C19_Witness ==
    /\ pc = "run"
    /\ cfg.tries = 3
    /\ attempts = 3
    /\ sleeps = 2
    /\ outcome = "slept"

\* the command lines of the termination check: every budget and backoff,
\* with a valid, a NaN and a reversed delay option
InitFair ==
    /\ Init
    /\ argv.d = <<Repr(1)>>
    /\ argv.m \in {<<>>, <<<<"n", "a", "n">>>>}
    /\ argv.j \in {<<>>, <<Comma(Repr(5), Repr(2))>>}

\* every step of the interpreter, every child run and every sleep ends
FairSpec == InitFair /\ [][Next]_vars /\ WF_vars(Next)

\* C20: with a finite budget, if every child run and every sleep finishes,
\* the process terminates, whatever the outcomes of the runs.
C20_FiniteBudgetTerminates == (argv.t >= 0) ~> (pc = "done")

\* C20 witness: budget 3 used up by three failures and two sleeps
C20_Witness ==
    /\ pc = "done"
    /\ cfg.tries = 3
    /\ Len(codes) = 3
    /\ sleeps = 2
    /\ result.kind = "sys_exit"

====
